---- MODULE Spec2Model ----
(***************************************************************************)
(* Timeline-based accounts-payable prioritization                          *)
(* (src/next-app/api-server/expenses.py, run_timeline_cash_flow_analysis).  *)
(*                                                                         *)
(* Money is counted in whole units (exact arithmetic).  A date is a day    *)
(* number relative to the day the analysis runs (today = 0); a nullable    *)
(* date is <<>> (None) or <<d>>.  An expense object is identified by its    *)
(* position in unpaid_expenses: the ORM query hands every row over as one  *)
(* object, so the positions are the object identities the recommendations  *)
(* dictionary is keyed by.                                                 *)
(*                                                                         *)
(* Spec is one call of the function.  The other specifications run the     *)
(* same actions from other inputs (SpecGroups, SpecScore), call the        *)
(* function a second time while the clock may pass midnight (SpecTwice)    *)
(* or with another days_forecast (SpecForecast), run two invocations at    *)
(* once (SpecConcurrent), or reach the function through                    *)
(* GET /expenses/payment-recommendations (SpecEndpoint, SpecDisplay).      *)
(* SpecJobs is the jobs runner of src/api/py/jobs_runner.py.               *)
(***************************************************************************)
EXTENDS Integers, Sequences, FiniteSets, TLC

\* ------------------------------------------------------------------ bounds
MaxLen == 2        \* at most this many unpaid expenses in one call
MaxCash == 2       \* largest available cash

\* Amounts and cash include the values the code does not reject: zero and
\* negative amounts, negative cash.  An amount of 2 is the smallest that can
\* be paid in part.
Amounts == {-1, 0, 1, 2}
CashValues == -1 .. MaxCash
\* Due days relative to today: past due, due within 7 days, due later.
DueDays == {-5, 3, 8}
NoDate == << >>
DueDates == {NoDate} \cup { <<d>> : d \in DueDays }
Urgencies == {"Critical", "Medium"}
\* vendor_id: 0 stands for None (both are falsy at line 202).
VendorIds == {0, 1}

\* An expense is critical by its urgency or by its vendor; the inputs leave
\* out the redundant case of both at once.
Expenses == { e \in [amount : Amounts, due_date : DueDates,
                     urgency : Urgencies, vendor_id : VendorIds] :
              ~(e.urgency = "Critical" /\ e.vendor_id # 0) }

\* The vendors table the session reads: payment_terms as the set of the
\* lower-cased words it contains.
VendorTerms == [v \in {1} |-> {"critical", "net_15"}]

VARIABLES unpaid_expenses, available_cash, pc, i,
          total_pending, total_recommended, remaining_cash,
          critical_expenses, past_due_expenses, upcoming_expenses,
          recommendations, summary,
          today,      \* the function's local: datetime.now().date()
          clock,      \* the day the wall clock shows
          calls,      \* which call of the function is running (1 or 2)
          previous,   \* what the first call returned, once a second one runs
          ep,         \* where the endpoint's handler is ("none": no handler)
          req_cash,   \* the request's available_cash parameter, << >> for None
          balance,    \* the latest CashBalance row's balance, << >> for none
          response,   \* what the endpoint answered
          days_forecast,  \* the days_forecast argument
          other,      \* the frame of the invocation that is not running, or << >>
          runner      \* the jobs runner's process (src/api/py/jobs_runner.py), or << >>

\* The state outside the running invocation of the function: its caller, the
\* clock, the other invocation and the jobs runner.
caller == <<clock, calls, previous, ep, req_cash, balance, days_forecast, response,
            other, runner>>

vars == <<unpaid_expenses, available_cash, pc, i,
          total_pending, total_recommended, remaining_cash,
          critical_expenses, past_due_expenses, upcoming_expenses,
          recommendations, summary, today, caller>>

\* ----------------------------------------------------------------- helpers
\* SumAmounts over the expenses that have a due date only
RECURSIVE SumDatedAmounts(_)
SumDatedAmounts(s) ==
    IF s = << >> THEN 0
    ELSE (IF Head(s).due_date # NoDate THEN Head(s).amount ELSE 0)
         + SumDatedAmounts(Tail(s))

\* line 183: sum(expense.amount for expense in unpaid_expenses)
RECURSIVE SumAmounts(_)
SumAmounts(s) == IF s = << >> THEN 0 ELSE Head(s).amount + SumAmounts(Tail(s))

Min(a, b) == IF a <= b THEN a ELSE b

HasDueDate(e) == unpaid_expenses[e].due_date # NoDate
Due(e) == unpaid_expenses[e].due_date[1]
Amount(e) == unpaid_expenses[e].amount

is_critical_vendor(vendor_id) ==
    IF vendor_id \notin DOMAIN VendorTerms THEN FALSE
    ELSE IF VendorTerms[vendor_id] = {} THEN FALSE
    ELSE "critical" \in VendorTerms[vendor_id] \/ "priority" \in VendorTerms[vendor_id]

\* IsCritical without the vendor lookup
IsCriticalByUrgencyOnly(e) == unpaid_expenses[e].urgency = "Critical"

IsCritical(e) ==
    \/ unpaid_expenses[e].urgency = "Critical"
    \/ (unpaid_expenses[e].vendor_id # 0 /\ is_critical_vendor(unpaid_expenses[e].vendor_id))

\* list.sort(key=lambda x: x.due_date): stable, ascending.
RECURSIVE InsertByDue(_, _)
InsertByDue(s, e) ==
    IF s = << >> THEN <<e>>
    ELSE IF Due(s[Len(s)]) <= Due(e) THEN Append(s, e)
    ELSE Append(InsertByDue(SubSeq(s, 1, Len(s) - 1), e), s[Len(s)])

\* SortByDue that leaves the list in the order of the input
NoSort(s) == s

RECURSIVE SortByDue(_)
SortByDue(s) ==
    IF s = << >> THEN << >>
    ELSE InsertByDue(SortByDue(SubSeq(s, 1, Len(s) - 1)), s[Len(s)])

\* recommendations[expense] = {...}
Put(recs, e, d) == [x \in (DOMAIN recs) \cup {e} |-> IF x = e THEN d ELSE recs[x]]

Decision(status, amount, score, rationale) ==
    [payment_status |-> status, payment_amount |-> amount,
     priority_score |-> score, rationale |-> rationale]

\* Control flow of the three for-loops: the next loop position that holds an
\* expense, or the summary when the loops are exhausted.
LoopPos(phase, k) ==
    IF phase = "critical" /\ k <= Len(critical_expenses) THEN <<"critical", k>>
    ELSE IF phase \in {"critical"} /\ Len(past_due_expenses) >= 1 THEN <<"past_due", 1>>
    ELSE IF phase = "past_due" /\ k <= Len(past_due_expenses) THEN <<"past_due", k>>
    ELSE IF phase \in {"critical", "past_due"} /\ Len(upcoming_expenses) >= 1 THEN <<"upcoming", 1>>
    ELSE IF phase = "upcoming" /\ k <= Len(upcoming_expenses) THEN <<"upcoming", k>>
    ELSE <<"summary", 1>>

\* -------------------------------------------------------------------- Init
Init ==
    /\ unpaid_expenses \in UNION { [1 .. n -> Expenses] : n \in 0 .. MaxLen }
    /\ available_cash \in CashValues
    /\ pc = "start"
    /\ i = 1
    /\ total_pending = 0
    /\ total_recommended = 0
    /\ remaining_cash = 0
    /\ critical_expenses = << >>
    /\ past_due_expenses = << >>
    /\ upcoming_expenses = << >>
    /\ recommendations = << >>
    /\ summary = << >>
    /\ today = 0
    /\ clock = 0
    /\ calls = 1
    /\ previous = << >>
    /\ ep = "none"
    /\ req_cash = << >>
    /\ balance = << >>
    /\ response = << >>
    /\ days_forecast = 60
    /\ other = << >>
    /\ runner = << >>

\* ----------------------------------------------------------------- actions
\* The days datetime.date can hold, date.min (0001-01-01) and date.max
\* (9999-12-31), as day numbers with day 0 = 2025-01-01; and the most days a
\* timedelta can hold.
DateMin == -739251
DateMax == 2912807
TimedeltaMaxDays == 999999999

\* line 180: today + timedelta(days=days_forecast) is a date
ForecastEndInRange(t) ==
    /\ -TimedeltaMaxDays <= days_forecast
    /\ days_forecast <= TimedeltaMaxDays
    /\ DateMin <= t + days_forecast
    /\ t + days_forecast <= DateMax

\* lines 179-180: forecast_end is not a date, OverflowError leaves the function
StartOverflow ==
    /\ pc = "start"
    /\ ~ForecastEndInRange(clock)
    /\ today' = clock
    /\ pc' = "raised"
    /\ UNCHANGED <<caller, unpaid_expenses, available_cash, i, total_pending,
                   total_recommended, remaining_cash, critical_expenses,
                   past_due_expenses, upcoming_expenses, recommendations, summary>>

\* Start that keeps the running total of the call before
StartKeepsTotal ==
    /\ pc = "start"
    /\ ForecastEndInRange(clock)
    /\ today' = clock
    /\ total_pending' = SumAmounts(unpaid_expenses)
    /\ recommendations' = << >>
    /\ total_recommended' = total_recommended
    /\ critical_expenses' = << >>
    /\ past_due_expenses' = << >>
    /\ upcoming_expenses' = << >>
    /\ pc' = "classify"
    /\ i' = 1
    /\ UNCHANGED <<caller, unpaid_expenses, available_cash, remaining_cash, summary>>

\* lines 179-192
Start ==
    /\ pc = "start"
    /\ ForecastEndInRange(clock)
    /\ today' = clock
    /\ total_pending' = SumAmounts(unpaid_expenses)
    /\ recommendations' = << >>
    /\ total_recommended' = 0
    /\ critical_expenses' = << >>
    /\ past_due_expenses' = << >>
    /\ upcoming_expenses' = << >>
    /\ pc' = "classify"
    /\ i' = 1
    /\ UNCHANGED <<caller, unpaid_expenses, available_cash, remaining_cash, summary>>

\* ClassOf that counts an expense due today as past due
ClassOfDueTodayPastDue(e) ==
    IF ~HasDueDate(e) THEN "skip"
    ELSE IF IsCritical(e) THEN "critical"
    ELSE IF Due(e) <= today THEN "past_due"
    ELSE "upcoming"

\* ClassOf with the critical test ahead of the due-date test
ClassOfCriticalBeforeDate(e) ==
    IF IsCritical(e) THEN "critical"
    ELSE IF ~HasDueDate(e) THEN "skip"
    ELSE IF Due(e) < today THEN "past_due"
    ELSE "upcoming"

\* lines 196-207: the group an expense is put in ("skip": no due date)
ClassOf(e) ==
    IF ~HasDueDate(e) THEN "skip"
    ELSE IF IsCritical(e) THEN "critical"
    ELSE IF Due(e) < today THEN "past_due"
    ELSE "upcoming"

\* lines 194-207: one iteration of the classification loop
Classify ==
    /\ pc = "classify"
    /\ i <= Len(unpaid_expenses)
    /\ critical_expenses' = IF ClassOf(i) = "critical"
                            THEN Append(critical_expenses, i) ELSE critical_expenses
    /\ past_due_expenses' = IF ClassOf(i) = "past_due"
                            THEN Append(past_due_expenses, i) ELSE past_due_expenses
    /\ upcoming_expenses' = IF ClassOf(i) = "upcoming"
                            THEN Append(upcoming_expenses, i) ELSE upcoming_expenses
    /\ i' = i + 1
    /\ UNCHANGED <<caller, today, unpaid_expenses, available_cash, pc, total_pending,
                   total_recommended, remaining_cash, recommendations, summary>>

\* lines 209-215: the three sorts, then remaining_cash = available_cash
SortGroups ==
    /\ pc = "classify"
    /\ i > Len(unpaid_expenses)
    /\ critical_expenses' = SortByDue(critical_expenses)
    /\ past_due_expenses' = SortByDue(past_due_expenses)
    /\ upcoming_expenses' = SortByDue(upcoming_expenses)
    /\ remaining_cash' = available_cash
    /\ pc' = LoopPos("critical", 1)[1]
    /\ i' = LoopPos("critical", 1)[2]
    /\ UNCHANGED <<caller, today, unpaid_expenses, available_cash, total_pending,
                   total_recommended, recommendations, summary>>

\* lines 217-235: the decision for a critical expense with `cash` left
CriticalScore(e) ==
    90 + Min(10, IF HasDueDate(e) /\ Due(e) < today THEN today - Due(e) ELSE 0)

\* AllocateCritical whose partial payment carries the rationale of a full one
AllocateCriticalPartialSaysFull(e, cash) ==
    IF cash >= Amount(e)
    THEN [decision |-> Decision("Full", Amount(e), CriticalScore(e),
                        <<"Critical vendor or expense marked as critical", 0>>),
          remaining |-> cash - Amount(e)]
    ELSE IF cash > 0
    THEN [decision |-> Decision("Partial", cash, CriticalScore(e),
                        <<"Critical vendor or expense marked as critical", 0>>),
          remaining |-> 0]
    ELSE [decision |-> Decision("Defer", 0, CriticalScore(e),
                        <<"Critical expense deferred due to insufficient funds", 0>>),
          remaining |-> cash]

\* AllocateCritical whose partial payment leaves the cash for the next groups
AllocateCriticalPartialKeepsCash(e, cash) ==
    IF cash >= Amount(e)
    THEN [decision |-> Decision("Full", Amount(e), CriticalScore(e),
                        <<"Critical vendor or expense marked as critical", 0>>),
          remaining |-> cash - Amount(e)]
    ELSE IF cash > 0
    THEN [decision |-> Decision("Partial", cash, CriticalScore(e),
                        <<"Critical expense with partial payment due to cash constraints", 0>>),
          remaining |-> cash]
    ELSE [decision |-> Decision("Defer", 0, CriticalScore(e),
                        <<"Critical expense deferred due to insufficient funds", 0>>),
          remaining |-> cash]

AllocateCritical(e, cash) ==
    IF cash >= Amount(e)
    THEN [decision |-> Decision("Full", Amount(e), CriticalScore(e),
                        <<"Critical vendor or expense marked as critical", 0>>),
          remaining |-> cash - Amount(e)]
    ELSE IF cash > 0
    THEN [decision |-> Decision("Partial", cash, CriticalScore(e),
                        <<"Critical expense with partial payment due to cash constraints", 0>>),
          remaining |-> 0]
    ELSE [decision |-> Decision("Defer", 0, CriticalScore(e),
                        <<"Critical expense deferred due to insufficient funds", 0>>),
          remaining |-> cash]

\* lines 248-267: the decision for a past-due expense with `cash` left
DaysOverdue(e) == IF HasDueDate(e) THEN today - Due(e) ELSE 0

PastDueScore(e) == 70 + Min(20, DaysOverdue(e) \div 5)

\* AllocatePastDue whose partial payment leaves remaining_cash as it was
AllocatePastDueKeepsCash(e, cash) ==
    IF cash >= Amount(e)
    THEN [decision |-> Decision("Full", Amount(e), PastDueScore(e),
                        <<"Past due by {N} days", DaysOverdue(e)>>),
          remaining |-> cash - Amount(e)]
    ELSE IF cash > 0
    THEN [decision |-> Decision("Partial", cash, PastDueScore(e),
                        <<"Past due by {N} days with partial payment due to cash constraints",
                          DaysOverdue(e)>>),
          remaining |-> cash]
    ELSE [decision |-> Decision("Defer", 0, PastDueScore(e),
                        <<"Past due expense deferred due to insufficient funds", 0>>),
          remaining |-> cash]

AllocatePastDue(e, cash) ==
    IF cash >= Amount(e)
    THEN [decision |-> Decision("Full", Amount(e), PastDueScore(e),
                        <<"Past due by {N} days", DaysOverdue(e)>>),
          remaining |-> cash - Amount(e)]
    ELSE IF cash > 0
    THEN [decision |-> Decision("Partial", cash, PastDueScore(e),
                        <<"Past due by {N} days with partial payment due to cash constraints",
                          DaysOverdue(e)>>),
          remaining |-> 0]
    ELSE [decision |-> Decision("Defer", 0, PastDueScore(e),
                        <<"Past due expense deferred due to insufficient funds", 0>>),
          remaining |-> cash]

\* lines 284-323: the decision for an upcoming expense with `cash` left
DaysToDue(e) == IF HasDueDate(e) THEN Due(e) - today ELSE 30

\* UpcomingScore whose second bucket ends a day early
UpcomingScoreShortBucket(e) ==
    LET base_score == IF DaysToDue(e) <= 7 THEN 60
                      ELSE IF DaysToDue(e) < 14 THEN 50
                      ELSE IF DaysToDue(e) <= 30 THEN 40
                      ELSE 30
        urgency_factor == IF unpaid_expenses[e].urgency = "High" THEN 10
                          ELSE IF unpaid_expenses[e].urgency = "Medium" THEN 0
                          ELSE IF unpaid_expenses[e].urgency = "Low" THEN -10
                          ELSE 0
    IN base_score + urgency_factor

UpcomingScore(e) ==
    LET base_score == IF DaysToDue(e) <= 7 THEN 60
                      ELSE IF DaysToDue(e) <= 14 THEN 50
                      ELSE IF DaysToDue(e) <= 30 THEN 40
                      ELSE 30
        urgency_factor == IF unpaid_expenses[e].urgency = "High" THEN 10
                          ELSE IF unpaid_expenses[e].urgency = "Medium" THEN 0
                          ELSE IF unpaid_expenses[e].urgency = "Low" THEN -10
                          ELSE 0
    IN base_score + urgency_factor

\* AllocateUpcoming that pays in part only before the seventh day
AllocateUpcomingPartialBeforeDay7(e, cash) ==
    IF cash >= Amount(e)
    THEN [decision |-> Decision("Full", Amount(e), UpcomingScore(e),
                        <<"Due in {N} days, sufficient funds available", DaysToDue(e)>>),
          remaining |-> cash - Amount(e)]
    ELSE IF cash > 0 /\ DaysToDue(e) < 7
    THEN [decision |-> Decision("Partial", cash, UpcomingScore(e),
                        <<"Due in {N} days, partial payment due to cash constraints",
                          DaysToDue(e)>>),
          remaining |-> 0]
    ELSE [decision |-> Decision("Defer", 0, UpcomingScore(e),
                        <<"Due in {N} days, deferred based on timeline analysis",
                          DaysToDue(e)>>),
          remaining |-> cash]

\* AllocateUpcoming whose partial payment leaves remaining_cash as it was
AllocateUpcomingPartialKeepsCash(e, cash) ==
    IF cash >= Amount(e)
    THEN [decision |-> Decision("Full", Amount(e), UpcomingScore(e),
                        <<"Due in {N} days, sufficient funds available", DaysToDue(e)>>),
          remaining |-> cash - Amount(e)]
    ELSE IF cash > 0 /\ DaysToDue(e) <= 7
    THEN [decision |-> Decision("Partial", cash, UpcomingScore(e),
                        <<"Due in {N} days, partial payment due to cash constraints",
                          DaysToDue(e)>>),
          remaining |-> cash]
    ELSE [decision |-> Decision("Defer", 0, UpcomingScore(e),
                        <<"Due in {N} days, deferred based on timeline analysis",
                          DaysToDue(e)>>),
          remaining |-> cash]

\* AllocateUpcoming that pays in part whatever the days to due
AllocateUpcomingPartialAnyDay(e, cash) ==
    IF cash >= Amount(e)
    THEN [decision |-> Decision("Full", Amount(e), UpcomingScore(e),
                        <<"Due in {N} days, sufficient funds available", DaysToDue(e)>>),
          remaining |-> cash - Amount(e)]
    ELSE IF cash > 0
    THEN [decision |-> Decision("Partial", cash, UpcomingScore(e),
                        <<"Due in {N} days, partial payment due to cash constraints",
                          DaysToDue(e)>>),
          remaining |-> 0]
    ELSE [decision |-> Decision("Defer", 0, UpcomingScore(e),
                        <<"Due in {N} days, deferred based on timeline analysis",
                          DaysToDue(e)>>),
          remaining |-> cash]

AllocateUpcoming(e, cash) ==
    IF cash >= Amount(e)
    THEN [decision |-> Decision("Full", Amount(e), UpcomingScore(e),
                        <<"Due in {N} days, sufficient funds available", DaysToDue(e)>>),
          remaining |-> cash - Amount(e)]
    ELSE IF cash > 0 /\ DaysToDue(e) <= 7
    THEN [decision |-> Decision("Partial", cash, UpcomingScore(e),
                        <<"Due in {N} days, partial payment due to cash constraints",
                          DaysToDue(e)>>),
          remaining |-> 0]
    ELSE [decision |-> Decision("Defer", 0, UpcomingScore(e),
                        <<"Due in {N} days, deferred based on timeline analysis",
                          DaysToDue(e)>>),
          remaining |-> cash]

\* Record with the total assigned instead of accumulated
RecordOverwritesTotal(e, a, phase) ==
    /\ recommendations' = Put(recommendations, e, a.decision)
    /\ total_recommended' = a.decision.payment_amount
    /\ remaining_cash' = a.remaining
    /\ pc' = LoopPos(phase, i + 1)[1]
    /\ i' = LoopPos(phase, i + 1)[2]
    /\ UNCHANGED <<caller, today, unpaid_expenses, available_cash, total_pending,
                   critical_expenses, past_due_expenses, upcoming_expenses, summary>>

\* lines 237-244, 269-276, 325-332: store the decision, add it to the total
Record(e, a, phase) ==
    /\ recommendations' = Put(recommendations, e, a.decision)
    /\ total_recommended' = total_recommended + a.decision.payment_amount
    /\ remaining_cash' = a.remaining
    /\ pc' = LoopPos(phase, i + 1)[1]
    /\ i' = LoopPos(phase, i + 1)[2]
    /\ UNCHANGED <<caller, today, unpaid_expenses, available_cash, total_pending,
                   critical_expenses, past_due_expenses, upcoming_expenses, summary>>

\* lines 216-244: one iteration of the critical loop
ProcessCritical ==
    /\ pc = "critical"
    /\ i <= Len(critical_expenses)
    /\ Record(critical_expenses[i],
              AllocateCritical(critical_expenses[i], remaining_cash), "critical")

\* lines 247-276: one iteration of the past-due loop
ProcessPastDue ==
    /\ pc = "past_due"
    /\ i <= Len(past_due_expenses)
    /\ Record(past_due_expenses[i],
              AllocatePastDue(past_due_expenses[i], remaining_cash), "past_due")

\* lines 279-332: one iteration of the upcoming loop
ProcessUpcoming ==
    /\ pc = "upcoming"
    /\ i <= Len(upcoming_expenses)
    /\ IF upcoming_expenses[i] \in DOMAIN recommendations
       THEN /\ pc' = LoopPos("upcoming", i + 1)[1]
            /\ i' = LoopPos("upcoming", i + 1)[2]
            /\ UNCHANGED <<caller, today, unpaid_expenses, available_cash, total_pending,
                           total_recommended, remaining_cash, critical_expenses,
                           past_due_expenses, upcoming_expenses, recommendations,
                           summary>>
       ELSE Record(upcoming_expenses[i],
                   AllocateUpcoming(upcoming_expenses[i], remaining_cash), "upcoming")

\* lines 335-346: the summary; the ratio is kept as <<numerator, denominator>>
Summarise ==
    /\ pc = "summary"
    /\ summary' = [available_cash |-> available_cash,
                   total_pending_expenses |-> total_pending,
                   total_recommended_payments |-> total_recommended,
                   cash_coverage_ratio |-> IF total_pending > 0
                                           THEN <<available_cash, total_pending>>
                                           ELSE <<1, 1>>,
                   remaining_cash |-> remaining_cash]
    /\ pc' = "done"
    /\ UNCHANGED <<caller, today, unpaid_expenses, available_cash, i, total_pending,
                   total_recommended, remaining_cash, critical_expenses,
                   past_due_expenses, upcoming_expenses, recommendations>>

Next ==
    \/ Start
    \/ Classify
    \/ SortGroups
    \/ ProcessCritical
    \/ ProcessPastDue
    \/ ProcessUpcoming
    \/ Summarise

Spec == Init /\ [][Next]_vars

\* The state in which a call of the function begins, with no endpoint.
FreshCall ==
    /\ pc = "start"
    /\ i = 1
    /\ total_pending = 0
    /\ total_recommended = 0
    /\ remaining_cash = 0
    /\ critical_expenses = << >>
    /\ past_due_expenses = << >>
    /\ upcoming_expenses = << >>
    /\ recommendations = << >>
    /\ summary = << >>
    /\ today = 0
    /\ clock = 0
    /\ calls = 1
    /\ previous = << >>
    /\ ep = "none"
    /\ req_cash = << >>
    /\ balance = << >>
    /\ response = << >>
    /\ days_forecast = 60
    /\ other = << >>
    /\ runner = << >>

\* ------------------------------------------------- SpecGroups: the groups
\* One call on valid inputs (amounts > 0, cash >= 0, every expense dated) with
\* the due days the group and partial-payment boundaries lie on: due today,
\* due in 7 days, due in 8 days; and with urgency High.
GroupsExpenses ==
    { e \in [amount : {1, 2}, due_date : { <<d>> : d \in {-5, 0, 3, 7, 8} },
             urgency : {"Critical", "High", "Medium"}, vendor_id : VendorIds] :
      e.vendor_id # 0 => e.urgency = "Medium" }

InitGroups ==
    /\ unpaid_expenses \in UNION { [1 .. n -> GroupsExpenses] : n \in 1 .. MaxLen }
    /\ available_cash \in 0 .. MaxCash
    /\ FreshCall

SpecGroups == InitGroups /\ [][Next]_vars

\* ------------------------------------------------- SpecTwice: two calls
MaxClock == 1      \* the clock passes at most this many midnights

\* line 179 reads the clock: a midnight may pass at any moment.
Tick ==
    /\ clock < MaxClock
    /\ clock' = clock + 1
    /\ UNCHANGED <<unpaid_expenses, available_cash, pc, i, total_pending,
                   total_recommended, remaining_cash, critical_expenses,
                   past_due_expenses, upcoming_expenses, recommendations, summary,
                   today, calls, previous, ep, req_cash, balance, days_forecast, response,
                   other, runner>>

\* lines 99-101, for the second time with the same arguments: the first
\* call's result is kept aside for comparison.  The locals of the first call
\* are gone; whatever the second call reads it has assigned itself.
CallAgain ==
    /\ pc = "done"
    /\ ep = "none"
    /\ calls = 1
    /\ previous' = [summary |-> summary, recommendations |-> recommendations,
                    today |-> today]
    /\ calls' = 2
    /\ pc' = "start"
    /\ UNCHANGED <<unpaid_expenses, available_cash, i, total_pending,
                   total_recommended, remaining_cash, critical_expenses,
                   past_due_expenses, upcoming_expenses, recommendations, summary,
                   today, clock, ep, req_cash, balance, days_forecast, response,
                   other, runner>>

TwiceExpenses ==
    [amount : {1, 2}, due_date : { <<d>> : d \in {-5, 0, 8} },
     urgency : {"Critical", "Medium"}, vendor_id : {0}]

InitTwice ==
    /\ unpaid_expenses \in UNION { [1 .. n -> TwiceExpenses] : n \in 1 .. MaxLen }
    /\ available_cash \in 0 .. MaxCash
    /\ FreshCall

NextTwice ==
    \/ Next
    \/ CallAgain
    \/ Tick

SpecTwice == InitTwice /\ [][NextTwice]_vars

\* ----------------------------------- SpecForecast: two values of days_forecast
\* The function is called twice on the same day with the same expenses and
\* cash, and another days_forecast the second time: the default, another
\* horizon, and one that the query parameter (an int without bounds, line 45)
\* lets through although no date is that far away.
ForecastValues == {30, 60, 3000000}

\* lines 99-101, for the second time with another days_forecast
CallWithForecast ==
    /\ pc \in {"done", "raised"}
    /\ ep = "none"
    /\ calls = 1
    /\ \E d \in ForecastValues \ {days_forecast} : days_forecast' = d
    /\ previous' = [outcome |-> pc, summary |-> summary,
                    recommendations |-> recommendations, today |-> today]
    /\ calls' = 2
    /\ pc' = "start"
    /\ UNCHANGED <<unpaid_expenses, available_cash, i, total_pending,
                   total_recommended, remaining_cash, critical_expenses,
                   past_due_expenses, upcoming_expenses, recommendations, summary,
                   today, clock, ep, req_cash, balance, response,
                   other, runner>>

InitForecast ==
    /\ unpaid_expenses \in UNION { [1 .. n -> TwiceExpenses] : n \in 1 .. MaxLen }
    /\ available_cash \in 0 .. MaxCash
    /\ days_forecast \in ForecastValues
    /\ pc = "start"
    /\ i = 1
    /\ total_pending = 0
    /\ total_recommended = 0
    /\ remaining_cash = 0
    /\ critical_expenses = << >>
    /\ past_due_expenses = << >>
    /\ upcoming_expenses = << >>
    /\ recommendations = << >>
    /\ summary = << >>
    /\ today = 0
    /\ clock = 0
    /\ calls = 1
    /\ previous = << >>
    /\ ep = "none"
    /\ req_cash = << >>
    /\ balance = << >>
    /\ response = << >>
    /\ other = << >>
    /\ runner = << >>

NextForecast ==
    \/ Next
    \/ StartOverflow
    \/ CallWithForecast

SpecForecast == InitForecast /\ [][NextForecast]_vars

\* ------------------------------------- SpecConcurrent: two invocations
\* Two requests are served at once, each by its own thread (the handler is a
\* plain def).  Every name the function assigns is a local of the
\* invocation: its frame.  One invocation runs, the frame of the other is
\* kept in `other`; calls tells which of the two is running.  Both read the
\* same expenses, each with its own available_cash.

\* The locals and arguments of the running invocation.
Frame ==
    [unpaid_expenses |-> unpaid_expenses, available_cash |-> available_cash,
     days_forecast |-> days_forecast, pc |-> pc, i |-> i,
     total_pending |-> total_pending, total_recommended |-> total_recommended,
     remaining_cash |-> remaining_cash, critical_expenses |-> critical_expenses,
     past_due_expenses |-> past_due_expenses, upcoming_expenses |-> upcoming_expenses,
     recommendations |-> recommendations, summary |-> summary, today |-> today]

\* Switch with remaining_cash outside the frames, one for both invocations
SwitchSharingCash ==
    /\ other # << >>
    /\ other' = Frame
    /\ unpaid_expenses' = other.unpaid_expenses
    /\ available_cash' = other.available_cash
    /\ days_forecast' = other.days_forecast
    /\ pc' = other.pc
    /\ i' = other.i
    /\ total_pending' = other.total_pending
    /\ total_recommended' = other.total_recommended
    /\ remaining_cash' = remaining_cash
    /\ critical_expenses' = other.critical_expenses
    /\ past_due_expenses' = other.past_due_expenses
    /\ upcoming_expenses' = other.upcoming_expenses
    /\ recommendations' = other.recommendations
    /\ summary' = other.summary
    /\ today' = other.today
    /\ calls' = 3 - calls
    /\ UNCHANGED <<clock, previous, ep, req_cash, balance, response, runner>>

\* lines 157-346 in two threads: the running invocation is suspended between
\* two of its steps and the other one resumed.
Switch ==
    /\ other # << >>
    /\ other' = Frame
    /\ unpaid_expenses' = other.unpaid_expenses
    /\ available_cash' = other.available_cash
    /\ days_forecast' = other.days_forecast
    /\ pc' = other.pc
    /\ i' = other.i
    /\ total_pending' = other.total_pending
    /\ total_recommended' = other.total_recommended
    /\ remaining_cash' = other.remaining_cash
    /\ critical_expenses' = other.critical_expenses
    /\ past_due_expenses' = other.past_due_expenses
    /\ upcoming_expenses' = other.upcoming_expenses
    /\ recommendations' = other.recommendations
    /\ summary' = other.summary
    /\ today' = other.today
    /\ calls' = 3 - calls
    /\ UNCHANGED <<clock, previous, ep, req_cash, balance, response, runner>>

ConcurrentExpenses ==
    { [amount |-> 2, due_date |-> <<-5>>, urgency |-> "Medium", vendor_id |-> 0],
      [amount |-> 1, due_date |-> <<3>>, urgency |-> "Medium", vendor_id |-> 0],
      [amount |-> 2, due_date |-> <<3>>, urgency |-> "Critical", vendor_id |-> 0] }

InitConcurrent ==
    /\ unpaid_expenses \in UNION { [1 .. n -> ConcurrentExpenses] : n \in 1 .. MaxLen }
    /\ available_cash \in 0 .. MaxCash
    /\ pc = "start"
    /\ i = 1
    /\ total_pending = 0
    /\ total_recommended = 0
    /\ remaining_cash = 0
    /\ critical_expenses = << >>
    /\ past_due_expenses = << >>
    /\ upcoming_expenses = << >>
    /\ recommendations = << >>
    /\ summary = << >>
    /\ today = 0
    /\ clock = 0
    /\ calls = 1
    /\ previous = << >>
    /\ ep = "none"
    /\ req_cash = << >>
    /\ balance = << >>
    /\ response = << >>
    /\ days_forecast = 60
    /\ \E c \in 0 .. MaxCash : other = [Frame EXCEPT !.available_cash = c]
    /\ runner = << >>

NextConcurrent ==
    \/ Next
    \/ Switch

SpecConcurrent == InitConcurrent /\ [][NextConcurrent]_vars

\* ------------------------------------------ SpecEndpoint: the endpoint
\* GET /expenses/payment-recommendations (get_payment_recommendations).  The
\* request carries available_cash or not; unpaid_expenses is what the query
\* of lines 75-85 returns, ordered by due_date with the rows without one
\* first or last, as the database sorts NULLs.

\* lines 63-72: the cash the handler goes on with
ResolvedCash == IF req_cash # << >> THEN req_cash[1] ELSE balance[1]

\* line 155: str(e) of HTTPException(status_code=404, detail="No cash balance
\* found"), which depends on the Starlette release: empty where the exception
\* passes no args on, "status: detail" where it defines __str__.
StrOfHTTPException == {"", "404: No cash balance found"}

\* lines 63-70, 154-155: no available_cash and no CashBalance row.  The
\* HTTPException(404) is raised inside the try and caught by the handler's
\* own except Exception, which raises HTTPException(500).
EndpointNoBalance ==
    /\ ep = "request"
    /\ req_cash = << >>
    /\ balance = << >>
    /\ \E text \in StrOfHTTPException :
          response' = [status |-> 500,
                       detail |-> <<"Error getting payment recommendations: ", text>>]
    /\ ep' = "responded"
    /\ UNCHANGED <<unpaid_expenses, available_cash, pc, i, total_pending,
                   total_recommended, remaining_cash, critical_expenses,
                   past_due_expenses, upcoming_expenses, recommendations, summary,
                   today, clock, calls, previous, req_cash,
                   balance, days_forecast,
                   other, runner>>

\* lines 63-96: no unpaid expense, the early return
EndpointEmpty ==
    /\ ep = "request"
    /\ req_cash # << >> \/ balance # << >>
    /\ unpaid_expenses = << >>
    /\ available_cash' = ResolvedCash
    /\ response' = [status |-> 200,
                    summary |-> [available_cash |-> ResolvedCash,
                                 total_pending_expenses |-> 0,
                                 total_recommended_payments |-> 0,
                                 cash_coverage_ratio |-> <<1, 1>>],
                    recommendations |-> << >>]
    /\ ep' = "responded"
    /\ UNCHANGED <<unpaid_expenses, pc, i, total_pending,
                   total_recommended, remaining_cash, critical_expenses,
                   past_due_expenses, upcoming_expenses, recommendations, summary,
                   today, clock, calls, previous, req_cash,
                   balance, days_forecast,
                   other, runner>>

\* lines 63-101: the call of run_timeline_cash_flow_analysis
EndpointCall ==
    /\ ep = "request"
    /\ req_cash # << >> \/ balance # << >>
    /\ unpaid_expenses # << >>
    /\ available_cash' = ResolvedCash
    /\ pc' = "start"
    /\ ep' = "called"
    /\ UNCHANGED <<unpaid_expenses, i, total_pending,
                   total_recommended, remaining_cash, critical_expenses,
                   past_due_expenses, upcoming_expenses, recommendations, summary,
                   today, clock, calls, previous, req_cash, balance, days_forecast, response,
                   other, runner>>

\* The hour of the day at which line 126 reads datetime.now(): midnight
\* sharp, or noon.
TimesOfDay == {0, 12}

\* line 126: (expense.due_date - datetime.now()).days if expense.due_date
\* else 0.  A due date is a datetime at 00:00 of its day; the difference of
\* two datetimes is a timedelta, and .days is its whole days, rounded down.
ResponseDaysToDue(e, hour) ==
    IF HasDueDate(e) THEN ((Due(e) - clock) * 24 - hour) \div 24 ELSE 0

\* lines 105, 125-144: one PaymentRecommendation per entry of the dictionary,
\* in the order the entries were inserted: critical, past due, upcoming.  (Of
\* its fields, the ones about the decision.)
Formatted(hour) ==
    LET order == critical_expenses \o past_due_expenses \o upcoming_expenses
    IN [k \in DOMAIN order |->
          [expense_id |-> order[k],
           amount |-> Amount(order[k]),
           days_to_due |-> ResponseDaysToDue(order[k], hour),
           urgency |-> unpaid_expenses[order[k]].urgency,
           payment_status |-> recommendations[order[k]].payment_status,
           payment_amount |-> recommendations[order[k]].payment_amount,
           priority_score |-> recommendations[order[k]].priority_score,
           rationale |-> recommendations[order[k]].rationale]]

\* InsertByScore that puts a recommendation ahead of those of equal score
RECURSIVE InsertAheadOfEquals(_, _)
InsertAheadOfEquals(s, r) ==
    IF s = << >> THEN <<r>>
    ELSE IF s[Len(s)].priority_score > r.priority_score THEN Append(s, r)
    ELSE Append(InsertAheadOfEquals(SubSeq(s, 1, Len(s) - 1), r), s[Len(s)])

\* SortByScore that leaves the list as it was built
UnsortedByScore(s) == s

\* line 147: recommendations.sort(key=priority_score, reverse=True), stable
RECURSIVE InsertByScore(_, _)
InsertByScore(s, r) ==
    IF s = << >> THEN <<r>>
    ELSE IF s[Len(s)].priority_score >= r.priority_score THEN Append(s, r)
    ELSE Append(InsertByScore(SubSeq(s, 1, Len(s) - 1), r), s[Len(s)])

RECURSIVE SortByScore(_)
SortByScore(s) ==
    IF s = << >> THEN << >>
    ELSE InsertByScore(SortByScore(SubSeq(s, 1, Len(s) - 1)), s[Len(s)])

\* lines 103-152: format, sort and return the report
FormatRecommendations ==
    /\ ep = "called"
    /\ pc = "done"
    /\ \E hour \in TimesOfDay :
          response' = [status |-> 200,
                       summary |-> summary,
                       recommendations |-> SortByScore(Formatted(hour))]
    /\ ep' = "responded"
    /\ UNCHANGED <<unpaid_expenses, available_cash, pc, i, total_pending,
                   total_recommended, remaining_cash, critical_expenses,
                   past_due_expenses, upcoming_expenses, recommendations, summary,
                   today, clock, calls, previous, req_cash,
                   balance, days_forecast,
                   other, runner>>

EndpointExpenses ==
    [amount : {1, 2}, due_date : DueDates,
     urgency : {"Critical", "High", "Medium", "Low"}, vendor_id : {0}]

\* ORDER BY due_date: ascending, the rows without a due date together at
\* one end.
QueryOrdered(s) ==
    /\ \A j, k \in DOMAIN s :
          (j < k /\ s[j].due_date # NoDate /\ s[k].due_date # NoDate)
             => s[j].due_date[1] <= s[k].due_date[1]
    /\ \/ \A j, k \in DOMAIN s : (j < k /\ s[k].due_date = NoDate) => s[j].due_date = NoDate
       \/ \A j, k \in DOMAIN s : (j < k /\ s[j].due_date = NoDate) => s[k].due_date = NoDate

InitEndpoint ==
    /\ unpaid_expenses \in { s \in UNION { [1 .. n -> EndpointExpenses] : n \in 0 .. MaxLen } :
                                QueryOrdered(s) }
    /\ req_cash \in {<< >>} \cup { <<c>> : c \in 0 .. MaxCash }
    /\ balance \in {<< >>, <<1>>}
    /\ ep = "request"
    /\ pc = "idle"
    /\ available_cash = 0
    /\ i = 1
    /\ total_pending = 0
    /\ total_recommended = 0
    /\ remaining_cash = 0
    /\ critical_expenses = << >>
    /\ past_due_expenses = << >>
    /\ upcoming_expenses = << >>
    /\ recommendations = << >>
    /\ summary = << >>
    /\ today = 0
    /\ clock = 0
    /\ calls = 1
    /\ previous = << >>
    /\ response = << >>
    /\ days_forecast = 60
    /\ other = << >>
    /\ runner = << >>

NextEndpoint ==
    \/ Next
    \/ EndpointNoBalance
    \/ EndpointEmpty
    \/ EndpointCall
    \/ FormatRecommendations

SpecEndpoint == InitEndpoint /\ [][NextEndpoint]_vars

\* --------------------------------- SpecDisplay: the order of the response
\* The endpoint on expenses whose scores tie across groups: a Critical
\* expense that is not overdue has 90, as has a PastDue one overdue by 100
\* days; a PastDue one overdue by a day has 70, as has an Upcoming High one
\* due within 7 days.
DisplayExpenses ==
    [amount : {1}, due_date : { <<d>> : d \in {-100, -1, 3, 8} },
     urgency : {"Critical", "High", "Medium"}, vendor_id : {0}]

InitDisplay ==
    /\ unpaid_expenses \in { s \in UNION { [1 .. n -> DisplayExpenses] : n \in 0 .. MaxLen } :
                                QueryOrdered(s) }
    /\ req_cash \in {<< >>, <<1>>}
    /\ balance \in {<< >>, <<0>>}
    /\ ep = "request"
    /\ pc = "idle"
    /\ available_cash = 0
    /\ i = 1
    /\ total_pending = 0
    /\ total_recommended = 0
    /\ remaining_cash = 0
    /\ critical_expenses = << >>
    /\ past_due_expenses = << >>
    /\ upcoming_expenses = << >>
    /\ recommendations = << >>
    /\ summary = << >>
    /\ today = 0
    /\ clock = 0
    /\ calls = 1
    /\ previous = << >>
    /\ response = << >>
    /\ days_forecast = 60
    /\ other = << >>
    /\ runner = << >>

SpecDisplay == InitDisplay /\ [][NextEndpoint]_vars

\* ------------------------------------------- SpecJobs: the jobs runner
\* python jobs_runner.py [--job J] [--verbose] (src/api/py/jobs_runner.py).
\* runner.job is the --job argument, "bogus" for one outside the choices;
\* runner.results is main_async's results, runner.exit_status the status
\* the process ends with (-1 while it runs).
JobNames == {"indicators", "ap", "growth"}
JobChoices == {"all"} \cup JobNames

\* lines 41, 59, 70: args.job in ["all", name]
Selected(name) == runner.job \in {"all", name}

NotRun == [status |-> "not_run", error |-> "None", data |-> "None"]

\* lines 53/56, 64/67, 75/78: what a job that ran leaves in results.  The
\* job returned a list, or it (or the logging of its result) raised an
\* Exception, which the except of its block caught.
JobOutcomes ==
    { [status |-> "success", error |-> "None", data |-> "list"],
      [status |-> "error", error |-> "str(e)", data |-> "None"] }

\* The runner's other variables stay as they are.
RunnerOnly ==
    UNCHANGED <<unpaid_expenses, available_cash, pc, i, total_pending,
                total_recommended, remaining_cash, critical_expenses,
                past_due_expenses, upcoming_expenses, recommendations, summary,
                today, clock, calls, previous, ep, req_cash, balance,
                days_forecast, response, other>>

\* lines 22-27: parse_args ends the process with status 2 on a --job that is
\* not one of the choices (SystemExit passes the except clauses of main).
RejectArguments ==
    /\ runner # << >>
    /\ runner.at = "parse"
    /\ runner.job \notin JobChoices
    /\ runner' = [runner EXCEPT !.at = "exited", !.exit_status = 2]
    /\ RunnerOnly

\* lines 22-37
ParseArguments ==
    /\ runner # << >>
    /\ runner.at = "parse"
    /\ runner.job \in JobChoices
    /\ runner' = [runner EXCEPT
                    !.at = "indicators",
                    !.results = [name \in JobNames |-> NotRun]]
    /\ RunnerOnly

\* lines 43-56, 61-67, 72-78: the try block of a selected job
RunJob(name, next) ==
    \E outcome \in JobOutcomes :
        runner' = [runner EXCEPT !.at = next, !.results[name] = outcome]

\* lines 41-56
RunIndicators ==
    /\ runner # << >>
    /\ runner.at = "indicators"
    /\ IF Selected("indicators") THEN RunJob("indicators", "ap")
       ELSE runner' = [runner EXCEPT !.at = "ap"]
    /\ RunnerOnly

\* lines 59-67
RunAP ==
    /\ runner # << >>
    /\ runner.at = "ap"
    /\ IF Selected("ap") THEN RunJob("ap", "growth")
       ELSE runner' = [runner EXCEPT !.at = "growth"]
    /\ RunnerOnly

\* lines 70-78
RunGrowth ==
    /\ runner # << >>
    /\ runner.at = "growth"
    /\ IF Selected("growth") THEN RunJob("growth", "return")
       ELSE runner' = [runner EXCEPT !.at = "return"]
    /\ RunnerOnly

\* lines 87-89: Ctrl-C while a selected job is awaited; KeyboardInterrupt is
\* not an Exception, so it leaves main_async and main exits with 1.
Interrupted ==
    /\ runner # << >>
    /\ runner.at \in JobNames
    /\ Selected(runner.at)
    /\ runner' = [runner EXCEPT !.at = "exited", !.exit_status = 1]
    /\ RunnerOnly

\* line 86: 0 if all(r["status"] == "success" for r in results.values()) else 1
ExitStatus ==
    IF \A name \in JobNames : runner.results[name].status = "success" THEN 0 ELSE 1

\* lines 80, 85-86
ExitRunner ==
    /\ runner # << >>
    /\ runner.at = "return"
    /\ runner' = [runner EXCEPT !.at = "exited", !.exit_status = ExitStatus]
    /\ RunnerOnly

InitJobs ==
    /\ \E job \in JobChoices \cup {"bogus"}, verbose \in BOOLEAN :
          runner = [job |-> job, verbose |-> verbose, at |-> "parse",
                    results |-> << >>, exit_status |-> -1]
    /\ unpaid_expenses = << >>
    /\ available_cash = 0
    /\ pc = "idle"
    /\ i = 1
    /\ total_pending = 0
    /\ total_recommended = 0
    /\ remaining_cash = 0
    /\ critical_expenses = << >>
    /\ past_due_expenses = << >>
    /\ upcoming_expenses = << >>
    /\ recommendations = << >>
    /\ summary = << >>
    /\ today = 0
    /\ clock = 0
    /\ calls = 1
    /\ previous = << >>
    /\ ep = "none"
    /\ req_cash = << >>
    /\ balance = << >>
    /\ response = << >>
    /\ days_forecast = 60
    /\ other = << >>

NextJobs ==
    \/ RejectArguments
    \/ ParseArguments
    \/ RunIndicators
    \/ RunAP
    \/ RunGrowth
    \/ Interrupted
    \/ ExitRunner

SpecJobs == InitJobs /\ [][NextJobs]_vars

\* -------------------------------------------------- SpecScore: the scores
\* One call on a single expense, with the due days the score formulas turn
\* on (overdue by 0, 1, 4, 5, 9, 10, 12 and 100 days; due in 7, 8, 14, 15, 30
\* and 31 days) and every urgency, "None" for an absent one and "Urgent" for
\* one outside the four.
ScoreExpenses ==
    [amount : {1},
     due_date : { <<d>> : d \in {-100, -12, -10, -9, -5, -4, -1, 0, 7, 8, 14, 15, 30, 31} },
     urgency : {"Critical", "High", "Medium", "Low", "None", "Urgent"},
     vendor_id : VendorIds]

InitScore ==
    /\ unpaid_expenses \in [1 .. 1 -> ScoreExpenses]
    /\ available_cash \in {0, 1}
    /\ FreshCall

SpecScore == InitScore /\ [][Next]_vars

\* ------------------------------------------------------------------ claims
Expense == DOMAIN unpaid_expenses
Dated == { e \in Expense : HasDueDate(e) }
Decided == DOMAIN recommendations
Allocating == pc \in {"critical", "past_due", "upcoming", "summary", "done"}

RECURSIVE SumOfPayments(_)
SumOfPayments(S) ==
    IF S = {} THEN 0
    ELSE LET e == CHOOSE x \in S : TRUE
         IN recommendations[e].payment_amount + SumOfPayments(S \ {e})

RECURSIVE SumOfAmounts(_)
SumOfAmounts(S) ==
    IF S = {} THEN 0
    ELSE LET e == CHOOSE x \in S : TRUE
         IN Amount(e) + SumOfAmounts(S \ {e})

\* C1: the summary's total_recommended_payments never exceeds available_cash.
\* Violated by the code for negative available_cash, which is not clamped to
\* zero: nothing is paid, and 0 > available_cash.
\* (Stated for the non-empty lists the endpoint passes on.)
NeverOverspend ==
    (pc = "done" /\ unpaid_expenses # << >>)
        => summary.total_recommended_payments <= summary.available_cash

\* C2: the summary's total_recommended_payments is the sum of payment_amount
\* over the decisions of the returned recommendations, and the running total
\* is that sum after every step of the pass.
TotalRecommendedIsSumOfPayments ==
    /\ Allocating => total_recommended = SumOfPayments(Decided)
    /\ pc = "done" => summary.total_recommended_payments = SumOfPayments(Decided)

TwoPaymentsSummed ==
    /\ pc = "done"
    /\ Cardinality(Decided) = 2
    /\ \A e \in Decided : recommendations[e].payment_amount > 0

\* C3: when available_cash >= total_pending every expense with a due date is
\* paid in full.  Violated by the code when an amount is negative: the negative
\* amount lowers total_pending and is not skipped.  (Stated for the
\* available_cash >= 0 of the input contract.)
FullPaymentCorrectness ==
    (pc = "done" /\ available_cash >= 0
                  /\ summary.available_cash >= summary.total_pending_expenses)
        => \A e \in Dated :
              /\ e \in Decided
              /\ recommendations[e].payment_status = "Full"
              /\ recommendations[e].payment_amount = Amount(e)

\* C4: with available_cash = 0 every decision is Defer with payment_amount 0.
\* Violated by the code for an amount <= 0, which 0 >= amount pays in full.
ZeroCashDefersAll ==
    (pc = "done" /\ available_cash = 0)
        => \A e \in Decided :
              /\ recommendations[e].payment_status = "Defer"
              /\ recommendations[e].payment_amount = 0

\* The groups as the inputs define them, for the claims about classification.
CriticalVendors ==
    { v \in DOMAIN VendorTerms : {"critical", "priority"} \cap VendorTerms[v] # {} }
InputCritical(e) ==
    unpaid_expenses[e].urgency = "Critical" \/ unpaid_expenses[e].vendor_id \in CriticalVendors
InputRank(e) ==
    IF InputCritical(e) THEN 1 ELSE IF Due(e) < today THEN 2 ELSE 3
Range(s) == { s[k] : k \in DOMAIN s }
Grouped == Range(critical_expenses) \cup Range(past_due_expenses) \cup Range(upcoming_expenses)

\* C5: cash goes to the groups in the order Critical, PastDue, Upcoming: an
\* expense of a later group has a decision only when every expense of the
\* earlier groups has one; and of a Critical A and a PastDue B with the same
\* due date that make up the call, with cash that covers either but not both,
\* A is the one paid.
ClassOrdering ==
    /\ Allocating =>
          \A a \in Dated, b \in Dated :
             (InputRank(a) < InputRank(b) /\ b \in Decided) => a \in Decided
    /\ pc = "done" /\ Len(unpaid_expenses) = 2 =>
          \A a \in Dated, b \in Dated :
             ( /\ InputRank(a) = 1 /\ InputRank(b) = 2 /\ Due(a) = Due(b)
               /\ available_cash >= Amount(a) /\ available_cash >= Amount(b)
               /\ available_cash < Amount(a) + Amount(b) )
             => /\ recommendations[a].payment_status = "Full"
                /\ recommendations[b].payment_status # "Full"
                /\ recommendations[b].payment_amount < Amount(b)

\* The PastDue expense comes first in the list, the Critical one is paid.
CriticalPaidBeforePastDue ==
    /\ pc = "done"
    /\ Len(unpaid_expenses) = 2
    /\ Dated = {1, 2}
    /\ InputRank(1) = 2 /\ InputRank(2) = 1 /\ Due(1) = Due(2)
    /\ Amount(1) = 2 /\ Amount(2) = 2 /\ available_cash = 2
    /\ recommendations[2].payment_status = "Full"
    /\ recommendations[1].payment_status = "Defer"

\* C6: processing an Upcoming expense due in more than 7 days with less
\* remaining_cash than its amount gives Defer, payment_amount 0, and leaves
\* remaining_cash as it was.
UpcomingDeferNoPartial ==
    [][ ( /\ pc = "upcoming"
          /\ i <= Len(upcoming_expenses)
          /\ upcoming_expenses[i] \notin Decided
          /\ DaysToDue(upcoming_expenses[i]) > 7
          /\ remaining_cash < Amount(upcoming_expenses[i]) )
        => ( /\ upcoming_expenses[i] \in DOMAIN recommendations'
             /\ recommendations'[upcoming_expenses[i]].payment_status = "Defer"
             /\ recommendations'[upcoming_expenses[i]].payment_amount = 0
             /\ remaining_cash' = remaining_cash ) ]_vars

\* The last Upcoming expense, due in more than 7 days, was deferred with
\* cash in hand that a partial payment would have spent.
UpcomingDeferredCashKept ==
    /\ pc = "done"
    /\ upcoming_expenses # << >>
    /\ LET e == upcoming_expenses[Len(upcoming_expenses)]
       IN /\ DaysToDue(e) > 7
          /\ e \in Decided
          /\ recommendations[e].payment_status = "Defer"
          /\ remaining_cash > 0
          /\ remaining_cash < Amount(e)

UndatedNeverDecided ==
    /\ \A e \in Expense \ Dated : e \notin Decided /\ e \notin Grouped
    /\ Allocating =>
          available_cash - remaining_cash = SumOfPayments(Decided \cap Dated)

\* A critical expense without a due date was left out although the cash
\* left at the end covers it.
UndatedCriticalLeftOut ==
    /\ pc = "done"
    /\ \E e \in Expense \ Dated :
          /\ InputCritical(e)
          /\ Amount(e) > 0
          /\ remaining_cash >= Amount(e)
          /\ e \notin Decided

\* C9: remaining_cash + the cash recommended so far = available_cash after
\* every step of the pass, and the summary's remaining_cash is available_cash
\* minus total_recommended_payments.
RemainingCashIsCashMinusRecommended ==
    /\ Allocating => remaining_cash + total_recommended = available_cash
    /\ pc = "done" =>
          summary.remaining_cash
              = summary.available_cash - summary.total_recommended_payments

\* A partial payment was made and the books balance at zero.
PartialPaymentBalanced ==
    /\ pc = "done"
    /\ \E e \in Decided : recommendations[e].payment_status = "Partial"
    /\ \E e \in Decided : recommendations[e].payment_status = "Full"
    /\ summary.remaining_cash = 0
    /\ summary.total_recommended_payments = summary.available_cash

\* C10: every decision has 0 <= payment_amount <= amount.  Violated by the
\* code for a negative amount, which is paid in full: payment_amount < 0.
PaymentWithinAmount ==
    \A e \in Decided :
       /\ 0 <= recommendations[e].payment_amount
       /\ recommendations[e].payment_amount <= Amount(e)

\* C11: a call with available_cash < 0 ends as a call with no cash does:
\* every decision Defer with payment_amount 0, total_recommended_payments 0
\* and remaining_cash 0.  Violated by the code: the negative cash is copied
\* into remaining_cash and reported.  (Stated for a non-empty list of
\* amounts > 0.)
NegativeCashClampedToZero ==
    ( /\ pc = "done" /\ available_cash < 0
      /\ unpaid_expenses # << >>
      /\ \A e \in Expense : Amount(e) > 0 )
    => /\ \A e \in Decided :
             /\ recommendations[e].payment_status = "Defer"
             /\ recommendations[e].payment_amount = 0
       /\ summary.total_recommended_payments = 0
       /\ summary.remaining_cash = 0

\* C12: an expense whose amount is zero or negative gets no payment and is
\* not marked Full.  Violated by the code: remaining_cash >= amount holds, so
\* it is paid in full.  (Stated for available_cash >= 0.)
InvalidAmountsSkipped ==
    available_cash >= 0 =>
        \A e \in Decided :
            Amount(e) <= 0 =>
                /\ recommendations[e].payment_status # "Full"
                /\ recommendations[e].payment_amount = 0

\* C19: cash_coverage_ratio = available_cash / total_pending whenever
\* total_pending # 0, and 1.0 when total_pending = 0 (the ratio n/d is kept as
\* <<n, d>> and compared by cross-multiplication).  Violated by the code for a
\* negative total_pending, which gets 1.0.
CoverageRatioFormula ==
    pc = "done" =>
        LET r == summary.cash_coverage_ratio
            t == summary.total_pending_expenses
        IN /\ t # 0 => r[1] * t = summary.available_cash * r[2]
           /\ t = 0 => r[1] = r[2]

\* The expense the running loop is at.
InLoop ==
    \/ pc = "critical" /\ i <= Len(critical_expenses)
    \/ pc = "past_due" /\ i <= Len(past_due_expenses)
    \/ pc = "upcoming" /\ i <= Len(upcoming_expenses)
Current ==
    IF pc = "critical" THEN critical_expenses[i]
    ELSE IF pc = "past_due" THEN past_due_expenses[i]
    ELSE upcoming_expenses[i]

\* C13: processing an expense with 0 < remaining_cash < amount gives, in the
\* Critical and PastDue groups, Partial with payment_amount = remaining_cash
\* and remaining_cash 0; in the Upcoming group the same if days_to_due <= 7,
\* and no Partial (Defer, cash untouched) if days_to_due > 7.
PartialPaymentRule ==
    [][ ( /\ InLoop
          /\ Current \notin Decided
          /\ 0 < remaining_cash
          /\ remaining_cash < Amount(Current) )
        => /\ Current \in DOMAIN recommendations'
           /\ IF pc \in {"critical", "past_due"} \/ DaysToDue(Current) <= 7
              THEN /\ recommendations'[Current].payment_status = "Partial"
                   /\ recommendations'[Current].payment_amount = remaining_cash
                   /\ remaining_cash' = 0
              ELSE /\ recommendations'[Current].payment_status = "Defer"
                   /\ recommendations'[Current].payment_amount = 0
                   /\ remaining_cash' = remaining_cash ]_vars

\* An Upcoming expense due in exactly 7 days was paid in part with all the
\* cash there was.
UpcomingDay7PaidInPart ==
    /\ pc = "done"
    /\ \E e \in Range(upcoming_expenses) :
          /\ DaysToDue(e) = 7
          /\ recommendations[e].payment_status = "Partial"
          /\ recommendations[e].payment_amount = available_cash
          /\ recommendations[e].payment_amount < Amount(e)
    /\ remaining_cash = 0

\* C14: of the expenses with a due date, the critical group holds exactly the
\* ones with urgency Critical or a critical vendor, the past-due group exactly
\* the others due before today, the upcoming group exactly the rest (due
\* today included); each is in one group, once.
ClassificationChain ==
    Allocating =>
       /\ \A e \in Dated :
             /\ e \in Range(critical_expenses) <=> InputCritical(e)
             /\ e \in Range(past_due_expenses) <=> (~InputCritical(e) /\ Due(e) < today)
             /\ e \in Range(upcoming_expenses) <=> (~InputCritical(e) /\ Due(e) >= today)
       /\ Len(critical_expenses) + Len(past_due_expenses) + Len(upcoming_expenses)
             = Cardinality(Dated)

\* An expense due today is Upcoming, and one of a critical vendor that is
\* past due is Critical, not PastDue.
DueTodayIsUpcoming ==
    /\ pc = "done"
    /\ \E e \in Range(upcoming_expenses) : Due(e) = today
    /\ \E e \in Range(critical_expenses) :
          /\ unpaid_expenses[e].urgency # "Critical"
          /\ Due(e) < today

\* A group's list in ascending order of due date.
AscendingDue(s) == \A j, k \in DOMAIN s : j < k => Due(s[j]) <= Due(s[k])

SameGroup(a, b) ==
    \/ {a, b} \subseteq Range(critical_expenses)
    \/ {a, b} \subseteq Range(past_due_expenses)
    \/ {a, b} \subseteq Range(upcoming_expenses)

\* C15: within a group the expenses are offered cash in ascending order of
\* due date, whatever their urgency and priority score: the lists are in that
\* order, and of two expenses of one group the one due later has a decision
\* only when the one due earlier has.
DueDateOrderWithinGroup ==
    Allocating =>
       /\ AscendingDue(critical_expenses)
       /\ AscendingDue(past_due_expenses)
       /\ AscendingDue(upcoming_expenses)
       /\ \A a \in Dated, b \in Dated :
             (SameGroup(a, b) /\ Due(a) < Due(b) /\ b \in Decided) => a \in Decided

\* Of two Upcoming expenses, the one listed second and due first got the
\* cash, and the one due later went without although its score is higher.
EarlierDueServedFirst ==
    /\ pc = "done"
    /\ Len(unpaid_expenses) = 2
    /\ {1, 2} \subseteq Range(upcoming_expenses)
    /\ Due(2) < Due(1)
    /\ recommendations[1].priority_score > recommendations[2].priority_score
    /\ recommendations[2].payment_status = "Full"
    /\ recommendations[1].payment_status = "Defer"

\* The reference formula of the priority score.
Max(a, b) == IF a >= b THEN a ELSE b
RefBucket(days_to_due) ==
    IF days_to_due <= 7 THEN 60
    ELSE IF days_to_due <= 14 THEN 50
    ELSE IF days_to_due <= 30 THEN 40
    ELSE 30
RefUrgency(urgency) ==
    CASE urgency = "High" -> 10
      [] urgency = "Low" -> -10
      [] OTHER -> 0
RefScore(e) ==
    IF InputCritical(e) THEN 90 + Min(10, Max(0, today - Due(e)))
    ELSE IF Due(e) < today THEN 70 + Min(20, (today - Due(e)) \div 5)
    ELSE RefBucket(Due(e) - today) + RefUrgency(unpaid_expenses[e].urgency)

\* C17: the priority_score of every decision is the reference formula's:
\* Critical 90 + min(10, max(0, days overdue)), PastDue 70 + min(20, days
\* overdue // 5), Upcoming the bucket of days to due plus the urgency
\* adjustment.
PriorityScoreFormula ==
    \A e \in Decided : recommendations[e].priority_score = RefScore(e)

\* The scores at the ends of the scale were given: a Low expense due in 31
\* days has 20.
LowestScoreGiven ==
    /\ pc = "done"
    /\ \E e \in Decided :
          /\ unpaid_expenses[e].urgency = "Low"
          /\ Due(e) - today = 31
          /\ recommendations[e].priority_score = 20

\* C18 as stated: a second call with the same available_cash and the same
\* list returns what the first returned.  Violated: the function reads the
\* date from the clock, and after midnight the same expenses fall into other
\* groups, with other scores, rationales and payments.
IdenticalCallsIdenticalOutput ==
    (pc = "done" /\ calls = 2)
        => /\ summary = previous.summary
           /\ recommendations = previous.recommendations

\* C18 as amended: a second call with the same inputs on the same date returns
\* what the first returned; nothing the first call left behind reaches it.
SameDayCallsIdenticalOutput ==
    (pc = "done" /\ calls = 2 /\ today = previous.today)
        => /\ summary = previous.summary
           /\ recommendations = previous.recommendations

\* A second call on the same date has ended, with a payment in its result.
SecondCallSameDay ==
    /\ pc = "done"
    /\ calls = 2
    /\ today = previous.today
    /\ summary.total_recommended_payments > 0
    /\ \E e \in Decided : recommendations[e].payment_status = "Partial"

Answered == ep = "responded" /\ response.status = 200

\* C16: the recommendations of a response are in non-increasing order of
\* priority_score: each has a score >= that of the one after it.
ResponseSortedByScore ==
    Answered =>
        \A k \in 1 .. Len(response.recommendations) - 1 :
            response.recommendations[k].priority_score
                >= response.recommendations[k + 1].priority_score

\* The sort moved a decision: the first of the response was decided second,
\* with the higher score.
ResponseReordered ==
    /\ Answered
    /\ Len(response.recommendations) = 2
    /\ response.recommendations[1].expense_id = Formatted(0)[2].expense_id
    /\ response.recommendations[1].priority_score
          > response.recommendations[2].priority_score

\* C20: with no unpaid expense the answer is a complete summary, with
\* total_pending 0, total_recommended 0, remaining_cash = available_cash and
\* cash_coverage_ratio 1.0, and an empty list.  Violated by the code: the
\* early return of lines 88-96 builds a summary without remaining_cash.
EmptySetCompleteSummary ==
    (Answered /\ unpaid_expenses = << >>)
        => /\ response.recommendations = << >>
           /\ response.summary.total_pending_expenses = 0
           /\ response.summary.total_recommended_payments = 0
           /\ response.summary.cash_coverage_ratio = <<1, 1>>
           /\ "remaining_cash" \in DOMAIN response.summary
           /\ response.summary.remaining_cash = response.summary.available_cash

\* The order the expenses are offered cash in, and the cash the k-th is
\* offered when every one before it was paid in full.
ProcessingOrder == critical_expenses \o past_due_expenses \o upcoming_expenses

RECURSIVE CashBefore(_)
CashBefore(k) ==
    IF k = 1 THEN available_cash
    ELSE CashBefore(k - 1) - Amount(ProcessingOrder[k - 1])

FirstShort(k) ==
    /\ CashBefore(k) < Amount(ProcessingOrder[k])
    /\ \A j \in 1 .. k - 1 : CashBefore(j) >= Amount(ProcessingOrder[j])

\* C21: when the first expense that cannot be paid in full is Critical or
\* PastDue and there is cash left, it gets Partial with all the cash left,
\* every expense processed after it gets Defer with payment_amount 0, and the
\* summary has remaining_cash 0 and total_recommended_payments =
\* available_cash.  Violated by the code when an amount <= 0 follows the
\* partial payment: 0 >= amount pays it in full.
CashExhaustion ==
    pc = "done" =>
        \A k \in DOMAIN ProcessingOrder :
            ( /\ FirstShort(k)
              /\ CashBefore(k) > 0
              /\ ProcessingOrder[k] \in Range(critical_expenses) \cup Range(past_due_expenses) )
            => /\ recommendations[ProcessingOrder[k]].payment_status = "Partial"
               /\ recommendations[ProcessingOrder[k]].payment_amount = CashBefore(k)
               /\ \A j \in k + 1 .. Len(ProcessingOrder) :
                     /\ recommendations[ProcessingOrder[j]].payment_status = "Defer"
                     /\ recommendations[ProcessingOrder[j]].payment_amount = 0
               /\ summary.remaining_cash = 0
               /\ summary.total_recommended_payments = summary.available_cash

\* The rationale templates; {N} stands for the day count, kept beside the
\* template (0 where the template has none).
RefRationale(group, status, days) ==
    CASE group = 1 /\ status = "Full" ->
            <<"Critical vendor or expense marked as critical", 0>>
      [] group = 1 /\ status = "Partial" ->
            <<"Critical expense with partial payment due to cash constraints", 0>>
      [] group = 1 /\ status = "Defer" ->
            <<"Critical expense deferred due to insufficient funds", 0>>
      [] group = 2 /\ status = "Full" ->
            <<"Past due by {N} days", days>>
      [] group = 2 /\ status = "Partial" ->
            <<"Past due by {N} days with partial payment due to cash constraints", days>>
      [] group = 2 /\ status = "Defer" ->
            <<"Past due expense deferred due to insufficient funds", 0>>
      [] group = 3 /\ status = "Full" ->
            <<"Due in {N} days, sufficient funds available", days>>
      [] group = 3 /\ status = "Partial" ->
            <<"Due in {N} days, partial payment due to cash constraints", days>>
      [] group = 3 /\ status = "Defer" ->
            <<"Due in {N} days, deferred based on timeline analysis", days>>

\* Days overdue for a PastDue expense, days to due for the others.
RefDays(e) == IF InputRank(e) = 2 THEN today - Due(e) ELSE Due(e) - today

\* C22: the rationale of every decision is the template of its group and
\* payment status, with N = days overdue (PastDue) or days to due (Upcoming).
RationaleFromTemplate ==
    \A e \in Decided :
        /\ recommendations[e].payment_status \in {"Full", "Partial", "Defer"}
        /\ recommendations[e].rationale
              = RefRationale(InputRank(e), recommendations[e].payment_status, RefDays(e))

\* A Critical expense was paid in part and an Upcoming one after it deferred,
\* each with its own rationale.
PartialThenDeferRationales ==
    /\ pc = "done"
    /\ \E a \in Range(critical_expenses), b \in Range(upcoming_expenses) :
          /\ recommendations[a].payment_status = "Partial"
          /\ recommendations[a].rationale
                = <<"Critical expense with partial payment due to cash constraints", 0>>
          /\ recommendations[b].payment_status = "Defer"
          /\ recommendations[b].rationale
                = <<"Due in {N} days, deferred based on timeline analysis", 7>>

\* C23: two calls that differ only in days_forecast return the same summary
\* and the same decisions.  Violated by the code: line 180 adds days_forecast
\* to today, and for a days_forecast past the last date the call raises
\* OverflowError where the other call returns.
ForecastIsInformational ==
    (calls = 2 /\ pc \in {"done", "raised"} /\ "outcome" \in DOMAIN previous)
        => /\ pc = "done"
           /\ previous.outcome = "done"
           /\ summary = previous.summary
           /\ recommendations = previous.recommendations

\* What holds: two calls with days_forecast inside the range of dates return
\* the same.
ForecastInRangeIsInformational ==
    (calls = 2 /\ pc = "done" /\ "outcome" \in DOMAIN previous /\ previous.outcome = "done")
        => /\ summary = previous.summary
           /\ recommendations = previous.recommendations

\* What the running invocation returns when it runs alone: the three groups
\* in turn, each in due-date order, from its own arguments.
AloneGroup(c) ==
    SortByDue(SelectSeq([k \in 1 .. Len(unpaid_expenses) |-> k],
                        LAMBDA e : ClassOf(e) = c))

RECURSIVE AlonePass(_, _, _)
AlonePass(phase, order, acc) ==
    IF order = << >> THEN acc
    ELSE LET e == Head(order)
             a == CASE phase = "critical" -> AllocateCritical(e, acc.cash)
                    [] phase = "past_due" -> AllocatePastDue(e, acc.cash)
                    [] OTHER -> AllocateUpcoming(e, acc.cash)
         IN AlonePass(phase, Tail(order),
                      [recs |-> Put(acc.recs, e, a.decision),
                       cash |-> a.remaining,
                       total |-> acc.total + a.decision.payment_amount])

Alone ==
    LET c == AlonePass("critical", AloneGroup("critical"),
                       [recs |-> << >>, cash |-> available_cash, total |-> 0])
        p == AlonePass("past_due", AloneGroup("past_due"), c)
        u == AlonePass("upcoming", AloneGroup("upcoming"), p)
        pending == SumAmounts(unpaid_expenses)
    IN [summary |-> [available_cash |-> available_cash,
                     total_pending_expenses |-> pending,
                     total_recommended_payments |-> u.total,
                     cash_coverage_ratio |-> IF pending > 0
                                             THEN <<available_cash, pending>>
                                             ELSE <<1, 1>>,
                     remaining_cash |-> u.cash],
        recommendations |-> u.recs]

\* C24: of two invocations whose steps interleave, each returns what it
\* returns when run alone: whenever the running invocation is done, its
\* summary and decisions are those of a run alone on its own arguments (and
\* each invocation is the running one when it ends).
NoInterference ==
    pc = "done" =>
        /\ summary = Alone.summary
        /\ recommendations = Alone.recommendations

\* One invocation has ended with a payment while the other is suspended
\* inside its allocation loops, a decision made, with another remaining_cash.
DoneWhileOtherSuspended ==
    /\ pc = "done"
    /\ summary.total_recommended_payments > 0
    /\ other # << >>
    /\ other.pc \in {"critical", "past_due", "upcoming"}
    /\ other.recommendations # << >>
    /\ other.remaining_cash # remaining_cash

\* C25: without available_cash and without a cash-balance record the endpoint
\* answers 404 with detail "No cash balance found".  Violated by the code: the
\* HTTPException(404) of line 70 is raised inside the try, caught by except
\* Exception at line 154 and replaced by a 500.
NoBalanceAnswers404 ==
    (ep = "responded" /\ req_cash = << >> /\ balance = << >>)
        => /\ response.status = 404
           /\ response.detail = "No cash balance found"

\* C26: the jobs runner ends with status 0 exactly when every job selected by
\* --job has status success, whatever the jobs that were not selected.
\* Violated by the code: line 86 looks at all three results, and a job that
\* was not selected has status not_run.
ExitZeroIffSelectedSucceeded ==
    (runner # << >> /\ runner.at = "exited" /\ runner.job \in JobChoices)
        => ( runner.exit_status = 0
             <=> \A name \in JobNames :
                    Selected(name) => runner.results[name].status = "success" )

\* C26, the part that holds: a job that failed does not keep the later
\* selected jobs from running.
LaterJobsRunAfterFailure ==
    (runner # << >> /\ runner.at = "return")
        => \A name \in JobNames :
              Selected(name) => runner.results[name].status \in {"success", "error"}

InGroup(rank) == { e \in Dated \cap Decided : InputRank(e) = rank }
Paid(e) == recommendations[e].payment_amount > 0
FullyPaid(e) == recommendations[e].payment_status = "Full"

\* C27 (amounts > 0, available_cash >= 0): if a PastDue or Upcoming expense
\* is paid anything then every Critical expense is Full, and if an Upcoming
\* expense is paid anything then every PastDue expense is Full.
PriorityNonInversion ==
    pc = "done" =>
        /\ (\E e \in InGroup(2) \cup InGroup(3) : Paid(e))
              => \A c \in InGroup(1) : FullyPaid(c)
        /\ (\E u \in InGroup(3) : Paid(u))
              => \A p \in InGroup(2) : FullyPaid(p)

\* A later group was paid in part and the earlier group's expense in full.
LaterGroupPaidAfterFull ==
    /\ pc = "done"
    /\ \/ \E c \in InGroup(1), p \in InGroup(2) :
             FullyPaid(c) /\ Paid(p) /\ recommendations[p].payment_status = "Partial"
       \/ \E q \in InGroup(2), u \in InGroup(3) :
             FullyPaid(q) /\ Paid(u) /\ recommendations[u].payment_status = "Partial"

\* C28: in the response every Critical decision comes before every PastDue
\* one and every PastDue one before every Upcoming one, ties of score at 90
\* and at 70 included.
DisplayRespectsGroups ==
    Answered =>
        \A j, k \in DOMAIN response.recommendations :
            j < k => InputRank(response.recommendations[j].expense_id)
                        <= InputRank(response.recommendations[k].expense_id)

\* A tie at 90 between a Critical and a PastDue expense, the query having
\* returned the PastDue one first: the response has it second.
TieKeptInGroupOrder ==
    /\ Answered
    /\ Len(response.recommendations) = 2
    /\ response.recommendations[1].priority_score
          = response.recommendations[2].priority_score
    /\ response.recommendations[1].expense_id = 2
    /\ response.recommendations[2].expense_id = 1
    /\ InputRank(2) < InputRank(1)

\* C29 (amounts > 0): in every decision the status is Full iff payment_amount
\* = amount, Defer iff payment_amount = 0 and Partial iff 0 < payment_amount <
\* amount; and a result has at most one Partial decision.
StatusMatchesAmount ==
    (\A e \in Expense : Amount(e) > 0) =>
        /\ \A e \in Decided :
              LET d == recommendations[e]
              IN /\ d.payment_status = "Full" <=> d.payment_amount = Amount(e)
                 /\ d.payment_status = "Defer" <=> d.payment_amount = 0
                 /\ d.payment_status = "Partial"
                       <=> (0 < d.payment_amount /\ d.payment_amount < Amount(e))
        /\ Cardinality({ e \in Decided : recommendations[e].payment_status = "Partial" }) <= 1

\* One decision is Partial and the one made after it is Defer, both for
\* expenses that could be paid in part.
OnePartialThenDefer ==
    /\ pc = "done"
    /\ Len(ProcessingOrder) = 2
    /\ \A e \in Expense : Amount(e) = 2
    /\ recommendations[ProcessingOrder[1]].payment_status = "Partial"
    /\ recommendations[ProcessingOrder[1]].payment_amount = 1
    /\ recommendations[ProcessingOrder[2]].payment_status = "Defer"
    /\ recommendations[ProcessingOrder[2]].payment_amount = 0
    /\ DaysToDue(ProcessingOrder[2]) <= 7

\* C30: for every Upcoming recommendation of a response, days_to_due is the N
\* of its rationale and the day count whose bucket gave its priority_score,
\* at any time of day.  Violated by the code: line 126 subtracts
\* datetime.now(), time of day included, from the due date, where line 284
\* subtracts dates; after midnight days_to_due is a day short of N.
DaysToDueMatchesRationale ==
    Answered =>
        \A k \in DOMAIN response.recommendations :
            LET r == response.recommendations[k]
            IN InputRank(r.expense_id) = 3 =>
                  /\ r.days_to_due = r.rationale[2]
                  /\ r.priority_score = RefBucket(r.days_to_due) + RefUrgency(r.urgency)

====
